---- MODULE Spec2Model ----
(***************************************************************************)
(* reliable-filereader: reliableFileReader(method, blob, options) wraps a  *)
(* FileReader read in a Promise and races it against a timeout.            *)
(*                                                                         *)
(* The model follows src/index.js statement by statement.  A call of       *)
(* reliableFileReader runs the whole Promise executor (validation, timer   *)
(* start, handler registration, read start) in one step; afterwards the    *)
(* host event loop runs one callback at a time: the timer callback, or the *)
(* reader's onload / onerror handler.                                      *)
(*                                                                         *)
(* index.js never declares `fileReader`: the identifier is free in the     *)
(* module, so it resolves against the global scope at run time.  Either no *)
(* such global exists (every evaluation of `fileReader` raises a           *)
(* ReferenceError) or the host defines one, and then every request uses    *)
(* that single reader.  Both environments are initial states.              *)
(***************************************************************************)
EXTENDS Integers, Sequences, FiniteSets, TLC

\* ------------------------------------------------------------------ bounds
NumRequests == 2
Requests == 1..NumRequests

\* ------------------------------------------------------------------ values
\* A JavaScript value as far as the code looks at it: typeof, instanceof,
\* its text in a template string, and (for numbers) its value.
JsValue(t, c, s, n) == [typeof |-> t, class |-> c, str |-> s, num |-> n]
Undefined == JsValue("undefined", "undefined", "undefined", 0)
DefaultTimeoutMs == 30000
NoopFunction == JsValue("function", "Function", "() => {}", 0)
SimpleTimeoutFn == JsValue("function", "Function", "simpleTimeout", 0)
ImmediateFn == JsValue("function", "Function", "immediate", 0)
UserCallback == JsValue("function", "Function", "onLate", 0)
NumberValue(n) == JsValue("number", "Number", ToString(n), n)
StringValue(s) == JsValue("string", "String", s, 0)
ABlob == JsValue("object", "Blob", "[object Blob]", 0)
PlainObject == JsValue("object", "Object", "[object Object]", 0)

\* Functions found on FileReader.prototype under the names the model passes.
FileReaderPrototype(method) ==
    IF method \in {"readAsDataURL", "readAsText"} THEN "function" ELSE "undefined"

\* Errors, results and events: what a promise is settled with, what a handler
\* is passed, what a statement throws.
Thing(k, m) == [kind |-> k, msg |-> m]
None == Thing("none", <<>>)
NewError(m) == Thing("Error", m)
ReferenceError == Thing("ReferenceError", <<"fileReader is not defined">>)
InvalidStateError == Thing("InvalidStateError", <<"reader is busy reading">>)
ResultOf(job) == Thing("result", <<"result of read ", ToString(job)>>)
ErrorEventOf(job) == Thing("ProgressEvent", <<"error of read ", ToString(job)>>)

\* ------------------------------------------------------------------ inputs
MethodInputs == {"readAsDataURL", "readAsText", "badMethod"}
BlobInputs == {ABlob, PlainObject}
TimeoutMsInputs == {Undefined, NumberValue(10000), StringValue("10000")}
OnFinishInputs == {Undefined, UserCallback, StringValue("notAFunction")}
TimeoutFunctionInputs == {Undefined, ImmediateFn, StringValue("notAFunction")}
Inputs == [method : MethodInputs, blob : BlobInputs, timeoutMs : TimeoutMsInputs,
           onFinishAfterTimeout : OnFinishInputs,
           timeoutFunction : TimeoutFunctionInputs]

\* Default parameter values: a missing option takes its default.
WithDefaults(in) ==
    [in EXCEPT
       !.timeoutMs = IF @ = Undefined THEN NumberValue(DefaultTimeoutMs) ELSE @,
       !.onFinishAfterTimeout = IF @ = Undefined THEN NoopFunction ELSE @,
       !.timeoutFunction = IF @ = Undefined THEN SimpleTimeoutFn ELSE @]

\* ------------------------------------------------------------------ state
VARIABLES
    fileReaderBound,  \* does the free identifier `fileReader` resolve?
    reader,           \* the global reader (meaningful when fileReaderBound)
    called,           \* called[r]: reliableFileReader was called for r
    inputValid,       \* inputValid[r]: the arguments of r pass every check
    closure,          \* method, timeoutMs, timeoutFunction captured by r
    thrown,           \* what the call itself threw to its caller
    promise,          \* the returned promise: state and value
    settlements,      \* history: the settlements that took effect
    hasTimedOut,      \* the closure's flag
    timer,            \* "none", "pending", "fired", "cleared"
    onCompleteCalls,  \* calls of onComplete
    stopCalls,        \* calls of stopWaitingForTimeout
    lateCalls,        \* calls of onFinishAfterTimeout
    lastLate,         \* argument of the last onFinishAfterTimeout call
    firstEarly,       \* first outcome onComplete handled with hasTimedOut false
    abortCalls,       \* calls of fileReader.abort() that reached a reader
    readStarts,       \* reads this request's method call started
    abortsBeforeRead, \* abort() calls of r made before r had started a read
    uncaught          \* number of errors that escaped a callback of r to the host

vars == <<fileReaderBound, reader, called, inputValid, closure, thrown, promise,
          settlements, hasTimedOut, timer, onCompleteCalls, stopCalls, lateCalls,
          lastLate, firstEarly, abortCalls, readStarts, abortsBeforeRead, uncaught>>

NoClosure == [method |-> "", timeoutMs |-> 0, timeoutFunction |-> ""]
NoPromise == [state |-> "none", value |-> None]
NoOutcome == [result |-> None, error |-> None]
EmptyReader == [state |-> "EMPTY", onload |-> 0, onerror |-> 0, job |-> 0,
                loadFired |-> FALSE, errorFired |-> FALSE, result |-> None]

\* The whole state as one record, so that a handler is a function from
\* state to state; exc is the exception in flight in the running handler.
Cur == [fileReaderBound |-> fileReaderBound, reader |-> reader, called |-> called,
        inputValid |-> inputValid, closure |-> closure, thrown |-> thrown,
        promise |-> promise, settlements |-> settlements,
        hasTimedOut |-> hasTimedOut, timer |-> timer,
        onCompleteCalls |-> onCompleteCalls, stopCalls |-> stopCalls,
        lateCalls |-> lateCalls, lastLate |-> lastLate, firstEarly |-> firstEarly,
        abortCalls |-> abortCalls, readStarts |-> readStarts,
        abortsBeforeRead |-> abortsBeforeRead,
        uncaught |-> uncaught, exc |-> None]

Becomes(s) ==
    /\ fileReaderBound' = s.fileReaderBound
    /\ reader' = s.reader
    /\ called' = s.called
    /\ inputValid' = s.inputValid
    /\ closure' = s.closure
    /\ thrown' = s.thrown
    /\ promise' = s.promise
    /\ settlements' = s.settlements
    /\ hasTimedOut' = s.hasTimedOut
    /\ timer' = s.timer
    /\ onCompleteCalls' = s.onCompleteCalls
    /\ stopCalls' = s.stopCalls
    /\ lateCalls' = s.lateCalls
    /\ lastLate' = s.lastLate
    /\ firstEarly' = s.firstEarly
    /\ abortCalls' = s.abortCalls
    /\ readStarts' = s.readStarts
    /\ abortsBeforeRead' = s.abortsBeforeRead
    /\ uncaught' = s.uncaught

Init ==
    /\ fileReaderBound \in BOOLEAN
    /\ reader = EmptyReader
    /\ called = [r \in Requests |-> FALSE]
    /\ inputValid = [r \in Requests |-> FALSE]
    /\ closure = [r \in Requests |-> NoClosure]
    /\ thrown = [r \in Requests |-> None]
    /\ promise = [r \in Requests |-> NoPromise]
    /\ settlements = [r \in Requests |-> <<>>]
    /\ hasTimedOut = [r \in Requests |-> FALSE]
    /\ timer = [r \in Requests |-> "none"]
    /\ onCompleteCalls = [r \in Requests |-> 0]
    /\ stopCalls = [r \in Requests |-> 0]
    /\ lateCalls = [r \in Requests |-> 0]
    /\ lastLate = [r \in Requests |-> NoOutcome]
    /\ firstEarly = [r \in Requests |-> NoOutcome]
    /\ abortCalls = [r \in Requests |-> 0]
    /\ readStarts = [r \in Requests |-> 0]
    /\ abortsBeforeRead = [r \in Requests |-> 0]
    /\ uncaught = [r \in Requests |-> 0]

\* ------------------------------------------------------------------ promise
\* The resolving functions of `new Promise((resolve, reject) => ...)`: the
\* first call settles the promise, every later call is ignored.
Settle(s, r, st, v) ==
    [s EXCEPT !.promise[r] = [state |-> st, value |-> v],
              !.settlements[r] = Append(@, [state |-> st, value |-> v])]

rejectAlways(s, r, reason) == Settle(s, r, "rejected", reason)

reject(s, r, reason) ==
    IF s.promise[r].state = "pending" THEN Settle(s, r, "rejected", reason) ELSE s

resolve(s, r, value) ==
    IF s.promise[r].state = "pending" THEN Settle(s, r, "fulfilled", value) ELSE s

\* ------------------------------------------------------------------ validation
\* Validation without its first check.
ValidateSkipsBlob(in) ==
    IF FileReaderPrototype(in.method) # "function"
    THEN NewError(<<"Invalid method passed to FileReader: ", in.method>>)
    ELSE IF in.timeoutMs.typeof # "number"
    THEN NewError(<<"Invalid timeoutMs passed to FileReader: ", in.timeoutMs.str>>)
    ELSE IF in.onFinishAfterTimeout.typeof # "function"
    THEN NewError(<<"Invalid onFinishAfterTimeout passed to FileReader: ",
                    in.onFinishAfterTimeout.str>>)
    ELSE IF in.timeoutFunction.typeof # "function"
    THEN NewError(<<"Invalid timeoutFunction passed to FileReader: ",
                    in.timeoutFunction.str>>)
    ELSE None

\* Validation without its last check.
ValidateSkipsTimeoutFunction(in) ==
    IF in.blob.class # "Blob"
    THEN NewError(<<"Invalid blob passed to FileReader: ", in.blob.str>>)
    ELSE IF FileReaderPrototype(in.method) # "function"
    THEN NewError(<<"Invalid method passed to FileReader: ", in.method>>)
    ELSE IF in.timeoutMs.typeof # "number"
    THEN NewError(<<"Invalid timeoutMs passed to FileReader: ", in.timeoutMs.str>>)
    ELSE IF in.onFinishAfterTimeout.typeof # "function"
    THEN NewError(<<"Invalid onFinishAfterTimeout passed to FileReader: ",
                    in.onFinishAfterTimeout.str>>)
    ELSE None

\* The five checks in source order; the first that fails throws its Error.
Validate(in) ==
    IF in.blob.class # "Blob"
    THEN NewError(<<"Invalid blob passed to FileReader: ", in.blob.str>>)
    ELSE IF FileReaderPrototype(in.method) # "function"
    THEN NewError(<<"Invalid method passed to FileReader: ", in.method>>)
    ELSE IF in.timeoutMs.typeof # "number"
    THEN NewError(<<"Invalid timeoutMs passed to FileReader: ", in.timeoutMs.str>>)
    ELSE IF in.onFinishAfterTimeout.typeof # "function"
    THEN NewError(<<"Invalid onFinishAfterTimeout passed to FileReader: ",
                    in.onFinishAfterTimeout.str>>)
    ELSE IF in.timeoutFunction.typeof # "function"
    THEN NewError(<<"Invalid timeoutFunction passed to FileReader: ",
                    in.timeoutFunction.str>>)
    ELSE None

\* ------------------------------------------------------------------ reader
\* FileReader.abort(): a read in progress ends and the result is cleared;
\* otherwise only the result is cleared.
ReaderAbort(rd) ==
    [rd EXCEPT !.state = IF @ = "LOADING" THEN "DONE" ELSE @, !.result = None]

\* `fileReader.abort()`: the identifier is looked up first.
fileReaderAbort(s, r) ==
    IF ~s.fileReaderBound
    THEN [s EXCEPT !.exc = ReferenceError]
    ELSE [s EXCEPT !.abortCalls[r] = @ + 1,
                   !.abortsBeforeRead[r] = IF s.readStarts[r] = 0 THEN @ + 1 ELSE @,
                   !.reader = ReaderAbort(@)]

\* `fileReader[method](blob)`: a reader that is already reading refuses a
\* second read with an InvalidStateError.
readMethod(s, r) ==
    IF s.reader.state = "LOADING"
    THEN [s EXCEPT !.exc = InvalidStateError]
    ELSE [s EXCEPT !.readStarts[r] = @ + 1,
                   !.reader = [@ EXCEPT !.state = "LOADING", !.job = r,
                                        !.loadFired = FALSE, !.errorFired = FALSE,
                                        !.result = None]]

\* ------------------------------------------------------------------ timeout
TimeoutMessage(method, timeoutMs) ==
    <<"FileReader ", method, " timed out after ", ToString(timeoutMs), "ms">>

\* A timeout callback that sets the flag and aborts but forgets to reject.
timeoutCallbackNoReject(s, r) ==
    fileReaderAbort([s EXCEPT !.hasTimedOut[r] = TRUE], r)

\* The callback handed to timeoutFunction.
timeoutCallback(s, r) ==
    LET s1 == [s EXCEPT !.hasTimedOut[r] = TRUE]
        s2 == reject(s1, r, NewError(TimeoutMessage(s.closure[r].method,
                                                    s.closure[r].timeoutMs)))
    IN  fileReaderAbort(s2, r)

\* simpleTimeout: setTimeout(callback, timeoutMs), returns stopWaiting.
simpleTimeout(s, r) == [s EXCEPT !.timer[r] = "pending"]

\* A stopWaiting that toggles the timer: a second call arms it again.
stopWaitingRearms(s, r) ==
    [s EXCEPT !.timer[r] = IF @ = "pending" THEN "cleared"
                           ELSE IF @ = "cleared" THEN "pending" ELSE @]

\* A stopWaiting that clears nothing.
stopWaitingClearsNothing(s, r) == s

\* stopWaiting: clearTimeout(timeoutId); no effect on a timer that has fired
\* or was cleared.
stopWaiting(s, r) ==
    [s EXCEPT !.timer[r] = IF @ = "pending" THEN "cleared" ELSE @]

\* A caller's strategy that runs the callback before it returns and whose
\* cancellation function has nothing left to cancel.
immediateTimeout(s, r) == timeoutCallback([s EXCEPT !.timer[r] = "fired"], r)

timeoutFunction(s, r) ==
    IF s.closure[r].timeoutFunction = "simpleTimeout"
    THEN simpleTimeout(s, r)
    ELSE immediateTimeout(s, r)

stopWaitingForTimeout(s, r) ==
    LET s1 == [s EXCEPT !.stopCalls[r] = @ + 1]
    IN  IF s.closure[r].timeoutFunction = "simpleTimeout" THEN stopWaiting(s1, r) ELSE s1

\* ------------------------------------------------------------------ onComplete
onFinishAfterTimeout(s, r, outcome) ==
    [s EXCEPT !.lateCalls[r] = @ + 1, !.lastLate[r] = outcome]

onComplete(s, r, outcome) ==
    LET s0 == [s EXCEPT !.onCompleteCalls[r] = @ + 1]
    IN  IF s0.hasTimedOut[r]
        THEN onFinishAfterTimeout(s0, r, outcome)
        ELSE LET s1 == [s0 EXCEPT !.firstEarly[r] = IF @ = NoOutcome THEN outcome ELSE @]
                 s2 == stopWaitingForTimeout(s1, r)
             IN  IF outcome.error # None
                 THEN reject(s2, r, outcome.error)
                 ELSE resolve(s2, r, outcome.result)

\* ------------------------------------------------------------------ the call
\* The Promise executor, up to its end or to the statement that throws.
executor(s, r, in) ==
    IF Validate(in) # None
    THEN [s EXCEPT !.exc = Validate(in)]
    ELSE LET s1 == [s EXCEPT !.hasTimedOut[r] = FALSE,
                             !.closure[r] = [method |-> in.method,
                                             timeoutMs |-> in.timeoutMs.num,
                                             timeoutFunction |-> in.timeoutFunction.str]]
             s2 == timeoutFunction(s1, r)
         IN  IF s2.exc # None THEN s2
             ELSE IF ~s2.fileReaderBound THEN [s2 EXCEPT !.exc = ReferenceError]
             ELSE readMethod([s2 EXCEPT !.reader.onload = r, !.reader.onerror = r], r)

\* new Promise(executor): an exception of the executor rejects the promise
\* and does not reach the caller.
NewPromise(s, r, in) ==
    LET s0 == [s EXCEPT !.promise[r] = [state |-> "pending", value |-> None]]
        s1 == executor(s0, r, in)
    IN  IF s1.exc # None THEN reject([s1 EXCEPT !.exc = None], r, s1.exc) ELSE s1

reliableFileReader(s, r, in) ==
    NewPromise([s EXCEPT !.called[r] = TRUE, !.thrown[r] = None], r, WithDefaults(in))

\* The arguments pass every check of the validation.
IsValidInput(in) ==
    /\ in.blob.class = "Blob"
    /\ FileReaderPrototype(in.method) = "function"
    /\ WithDefaults(in).timeoutMs.typeof = "number"
    /\ WithDefaults(in).onFinishAfterTimeout.typeof = "function"
    /\ WithDefaults(in).timeoutFunction.typeof = "function"

\* ------------------------------------------------------------------ actions
\* A caller calls reliableFileReader; requests are numbered in call order.
Call(r, in) ==
    /\ ~called[r]
    /\ \A q \in Requests : q < r => called[q]
    /\ Becomes([reliableFileReader(Cur, r, in) EXCEPT !.inputValid[r] = IsValidInput(in)])

\* The host runs the callback of a pending setTimeout; what the callback
\* throws goes to the host.
TimerExpire(r) ==
    /\ timer[r] = "pending"
    /\ LET s == timeoutCallback([Cur EXCEPT !.timer[r] = "fired"], r)
       IN  Becomes(IF s.exc # None
                   THEN [s EXCEPT !.exc = None, !.uncaught[r] = @ + 1]
                   ELSE s)

\* The reader delivers its load event: fileReader.onload runs.
FireLoad ==
    /\ fileReaderBound
    /\ reader.job # 0
    /\ ~reader.loadFired
    /\ LET rd == [reader EXCEPT !.loadFired = TRUE, !.state = "DONE",
                                !.result = ResultOf(reader.job)]
       IN  Becomes(onComplete([Cur EXCEPT !.reader = rd], rd.onload,
                              [result |-> rd.result, error |-> None]))

\* The reader delivers its error event: fileReader.onerror runs.
FireError ==
    /\ fileReaderBound
    /\ reader.job # 0
    /\ ~reader.errorFired
    /\ LET rd == [reader EXCEPT !.errorFired = TRUE, !.state = "DONE"]
       IN  Becomes(onComplete([Cur EXCEPT !.reader = rd], rd.onerror,
                              [result |-> None, error |-> ErrorEventOf(rd.job)]))

Next ==
    \/ \E r \in Requests, in \in Inputs : Call(r, in)
    \/ \E r \in Requests : TimerExpire(r)
    \/ FireLoad
    \/ FireError

Spec == Init /\ [][Next]_vars

\* The same program called with a smaller choice of arguments, and the
\* host's timers firing: a pending setTimeout callback eventually runs unless
\* clearTimeout removes it first.
LiveInputs == [method : {"readAsDataURL"}, blob : BlobInputs, timeoutMs : {Undefined},
               onFinishAfterTimeout : {Undefined},
               timeoutFunction : {Undefined, ImmediateFn}]

NextLive ==
    \/ \E r \in Requests, in \in LiveInputs : Call(r, in)
    \/ \E r \in Requests : TimerExpire(r)
    \/ FireLoad
    \/ FireError

FairSpec == Init /\ [][NextLive]_vars /\ WF_vars(\E r \in Requests : TimerExpire(r))

\* ------------------------------------------------------------------ claims
Settled(r) == promise[r].state \in {"fulfilled", "rejected"}
Contains(msg, token) == \E i \in DOMAIN msg : msg[i] = token
TimeoutError(r) == NewError(TimeoutMessage(closure[r].method, closure[r].timeoutMs))
SettledByCompletion(r) == Settled(r) /\ promise[r].value.kind \in {"result", "ProgressEvent"}
IsValidationError(v) ==
    /\ v.kind = "Error"
    /\ Len(v.msg) = 2
    /\ v.msg[1] \in {"Invalid blob passed to FileReader: ",
                     "Invalid method passed to FileReader: ",
                     "Invalid timeoutMs passed to FileReader: ",
                     "Invalid onFinishAfterTimeout passed to FileReader: ",
                     "Invalid timeoutFunction passed to FileReader: "}
\* Calls of onComplete made when hasTimedOut was already true.
LateNotifications(r) == onCompleteCalls[r] - stopCalls[r]

\* C1: the returned promise settles at most once, whatever the order of the
\* timer callback, onload and onerror (both may fire): exactly one
\* settlement ever takes effect and it is the promise's value, so the promise
\* is never both resolved and rejected, never changes its value, and a
\* timeout rejection and a read-failure rejection are never both delivered.
C1_SettlesOnce ==
    \A r \in Requests :
        /\ Len(settlements[r]) <= 1
        /\ Settled(r) => settlements[r] = <<promise[r]>>
        /\ ~Settled(r) => settlements[r] = <<>>

C1_Witness ==
    \E r \in Requests :
        /\ reader.loadFired /\ reader.errorFired
        /\ onCompleteCalls[r] = 2
        /\ firstEarly[r] # NoOutcome
        /\ Settled(r)

\* C2: under fair timers, a request with valid arguments always ends with
\* its promise settled, also when the reader never fires onload or onerror.
C2_EventuallySettles ==
    \A r \in Requests : [](called[r] /\ inputValid[r] => <>Settled(r))

C2_Witness ==
    \E r \in Requests :
        /\ fileReaderBound /\ inputValid[r]
        /\ closure[r].timeoutFunction = "simpleTimeout"
        /\ ~reader.loadFired /\ ~reader.errorFired
        /\ timer[r] = "fired"
        /\ promise[r] = [state |-> "rejected", value |-> TimeoutError(r)]

\* C3: once onComplete has handled a notification with hasTimedOut false,
\* the promise is settled with that outcome (resolved with the result, or
\* rejected with the error itself), the timer is no longer pending, and the
\* timeout callback has not run (hasTimedOut false, no abort requested).
C3_EarlyCompletionSettles ==
    \A r \in Requests :
        firstEarly[r] # NoOutcome =>
            /\ promise[r] = IF firstEarly[r].error # None
                            THEN [state |-> "rejected", value |-> firstEarly[r].error]
                            ELSE [state |-> "fulfilled", value |-> firstEarly[r].result]
            /\ timer[r] # "pending"
            /\ ~hasTimedOut[r]
            /\ abortCalls[r] = 0

\* C4: when the timer has fired and no notification was handled before it,
\* the promise is rejected with an Error whose message contains the method
\* name and the configured timeoutMs, and abort was requested on the reader.
C4_TimeoutRejects ==
    \A r \in Requests :
        (timer[r] = "fired" /\ firstEarly[r] = NoOutcome) =>
            /\ promise[r].state = "rejected"
            /\ promise[r].value.kind = "Error"
            /\ Contains(promise[r].value.msg, closure[r].method)
            /\ Contains(promise[r].value.msg, ToString(closure[r].timeoutMs))
            /\ Contains(promise[r].value.msg, " timed out after ")
            /\ abortCalls[r] >= 1

\* C5: when notifications arrive after the timeout, onFinishAfterTimeout is
\* called exactly once for the request, with the result or the error, and
\* the promise stays rejected with the timeout error.
C5_LateFinishOnce ==
    \A r \in Requests :
        LateNotifications(r) >= 1 =>
            /\ lateCalls[r] = 1
            /\ lastLate[r] # NoOutcome
            /\ promise[r] = [state |-> "rejected", value |-> TimeoutError(r)]

\* C6 (as stated): a call with invalid arguments throws to its caller and
\* creates no promise.
C6_ThrowsToCaller ==
    \A r \in Requests :
        (called[r] /\ ~inputValid[r]) => (thrown[r] # None /\ promise[r].state = "none")

\* C6 (amended): a call with invalid arguments throws nothing to its caller;
\* it returns a promise that the call itself has already rejected with the
\* validation Error, and no timer was started.
C6_RejectsDuringCall ==
    \A r \in Requests :
        (called[r] /\ ~inputValid[r]) =>
            /\ thrown[r] = None
            /\ promise[r].state = "rejected"
            /\ IsValidationError(promise[r].value)
            /\ timer[r] = "none"

C6_Witness ==
    \E r \in Requests :
        /\ called[r] /\ ~inputValid[r]
        /\ promise[r].value = NewError(<<"Invalid blob passed to FileReader: ",
                                        "[object Object]">>)

\* C7: a request with invalid arguments has no asynchronous effect: no
\* timer, no read, no handler on the reader, hasTimedOut never set, no
\* abort, no onComplete, no onFinishAfterTimeout.
C7_InvalidHasNoEffect ==
    \A r \in Requests :
        (called[r] /\ ~inputValid[r]) =>
            /\ timer[r] = "none"
            /\ readStarts[r] = 0
            /\ reader.onload # r /\ reader.onerror # r /\ reader.job # r
            /\ ~hasTimedOut[r]
            /\ abortCalls[r] = 0
            /\ onCompleteCalls[r] = 0
            /\ lateCalls[r] = 0
            /\ uncaught[r] = 0

C7_Witness ==
    \E r, q \in Requests :
        /\ called[r] /\ ~inputValid[r]
        /\ inputValid[q] /\ hasTimedOut[q] /\ lateCalls[q] >= 1
        /\ IsValidationError(promise[r].value)
        /\ promise[r].value.msg[1] = "Invalid timeoutFunction passed to FileReader: "

\* C8: a promise settled by a notification (resolved with the result or
\* rejected with the read error) never goes with a call of
\* onFinishAfterTimeout, also after a second notification.
C8_NoLateCallAfterCompletion ==
    \A r \in Requests : SettledByCompletion(r) => lateCalls[r] = 0

C8_Witness ==
    \E r \in Requests : SettledByCompletion(r) /\ onCompleteCalls[r] = 2

\* C9: onComplete runs at most once per request.
C9_OnCompleteAtMostOnce ==
    \A r \in Requests : onCompleteCalls[r] <= 1

\* C10: stopWaitingForTimeout is called at most once per request, exactly
\* once when a notification was handled before the timeout, and never for a
\* request whose hasTimedOut is true.
C10_StopCalledOnce ==
    \A r \in Requests :
        /\ stopCalls[r] <= 1
        /\ firstEarly[r] # NoOutcome => stopCalls[r] = 1
        /\ hasTimedOut[r] => stopCalls[r] = 0

\* C11: for a request with valid arguments the timer has been started and
\* the named method has started the read exactly once.
C11_ReadStarted ==
    \A r \in Requests :
        (called[r] /\ inputValid[r]) => (timer[r] # "none" /\ readStarts[r] = 1)

\* C12: what fileReader.abort() raises in the timeout callback stays inside
\* the callback, and a request that timed out stays rejected with the
\* timeout error.
C12_AbortFailureSwallowed ==
    \A r \in Requests :
        /\ uncaught[r] = 0
        /\ hasTimedOut[r] => promise[r] = [state |-> "rejected", value |-> TimeoutError(r)]

\* The read started by r is in flight: not completed, not ended by abort.
ReadInFlight(r) == reader.job = r /\ reader.state = "LOADING"

\* C13: once a valid request has ended (its promise is settled), none of its
\* timers is pending and its read is not left in flight.
C13_ResourcesReleased ==
    \A r \in Requests :
        (inputValid[r] /\ Settled(r)) => (timer[r] # "pending" /\ ~ReadInFlight(r))

\* C14: a request that is still waiting keeps its own read and its own
\* handlers: no other request takes over the reader that will notify it.
C14_NoSharedState ==
    \A r \in Requests :
        (inputValid[r] /\ promise[r].state = "pending") =>
            (reader.job = r /\ reader.onload = r /\ reader.onerror = r)

\* C16: whenever hasTimedOut is true the promise is rejected with the
\* timeout error (never resolved, never rejected with another error), and
\* no notification had settled the request before.
C16_TimedOutMeansTimeoutRejection ==
    \A r \in Requests :
        hasTimedOut[r] =>
            /\ promise[r] = [state |-> "rejected", value |-> TimeoutError(r)]
            /\ firstEarly[r] = NoOutcome

\* C15: for a request that uses simpleTimeout, cancelling twice is the same
\* as cancelling once, cancelling a timer that has fired changes nothing,
\* a cancelled timer stays cancelled and its callback has never run, and a
\* timer that fired ran its callback exactly once.
C15_SimpleTimeoutCancel ==
    \A r \in Requests :
        closure[r].timeoutFunction = "simpleTimeout" =>
            /\ stopWaiting(stopWaiting(Cur, r), r) = stopWaiting(Cur, r)
            /\ timer[r] = "fired" => stopWaiting(Cur, r) = Cur
            /\ timer[r] = "pending" => stopWaiting(Cur, r).timer[r] = "cleared"
            /\ stopCalls[r] >= 1 =>
                  /\ timer[r] = "cleared"
                  /\ ~hasTimedOut[r] /\ abortCalls[r] = 0 /\ uncaught[r] = 0
            /\ timer[r] # "fired" => ~hasTimedOut[r]
            /\ timer[r] = "fired" => (hasTimedOut[r] /\ abortCalls[r] + uncaught[r] = 1)

C15_Witness ==
    \E r, q \in Requests :
        /\ closure[r].timeoutFunction = "simpleTimeout"
        /\ stopCalls[r] = 2 /\ timer[r] = "cleared"
        /\ closure[q].timeoutFunction = "simpleTimeout" /\ timer[q] = "fired"

\* C17: abort is requested at most once per request, and never before the
\* request has started its read.
C17_AbortAfterReadStart ==
    \A r \in Requests : abortCalls[r] <= 1 /\ abortsBeforeRead[r] = 0

====
